---- MODULE Spec2Model ----
(***************************************************************************)
(* Wave backend (src/app.py, src/models.py): the task / quote / rating /   *)
(* notification tables and the request handlers that change them.          *)
(*                                                                         *)
(* A handler reads through its SQLAlchemy session (no write transaction is *)
(* open while it only reads) and writes when it calls db.session.commit(), *)
(* which flushes every pending change in one SQLite write transaction.     *)
(* Each handler is therefore a read step followed by one commit step per   *)
(* db.session.commit() call of its code.                                   *)
(*                                                                         *)
(* Slot 1 runs a request whose read and first commit happen with no other  *)
(* commit in between, as one step.  Slot 2 runs a request whose read and   *)
(* commit are separate steps, so that slot 1's commits fall in between.    *)
(* Reads do not change the tables, so two overlapping requests are always  *)
(* one of the two.  Spec uses slot 1 alone (requests one at a time);       *)
(* SpecConc uses both slots (two requests overlapping).                    *)
(***************************************************************************)
EXTENDS Integers, Sequences, FiniteSets, TLC

VARIABLES tasks, quotes, ratings, notifs, reqs, last, overlaps, users, view

vars == <<tasks, quotes, ratings, notifs, reqs, last, overlaps, users, view>>
db == <<tasks, quotes, ratings, notifs>>

(* ------------------------------ bounds -------------------------------- *)
(* The rows a table may hold ids for, and the notifications ever written. *)
MaxQuotes == 3
MaxRatings == 2
MaxNotifs == 4
(* The requests of a run that overlap another one (slot 2). *)
MaxOverlaps == 1

(* User 1 posts the tasks, users 2 and 3 quote them; every user may send   *)
(* every other request.                                                    *)
Users == {1, 2, 3}
Posters == {1}
Helpers == {2, 3}
TaskIds == {1}
QuoteIds == 1..MaxQuotes
Slots == {1, 2}

(* None / SQL NULL of a nullable column and of a handler local. *)
NULL == -999

(* --------------------------- request bodies --------------------------- *)
(* A JSON value of the request body, as data.get() returns it:            *)
(* null (key absent or null), a number, a string spelling the number v,   *)
(* or a string that spells no number.                                     *)
JNull == [t |-> "null", v |-> 0]
JNum(n) == [t |-> "num", v |-> n]
JNumStr(n) == [t |-> "numstr", v |-> n]
JBadStr == [t |-> "badstr", v |-> 0]

(* request.get_json()['mobile']: a string, "" or absent. *)
NoMobile == "<none>"

Payloads ==
  { [charges |-> JNum(50),    hours |-> JNum(2),    mobile |-> "555"],
    [charges |-> JNumStr(-5), hours |-> JNumStr(3), mobile |-> "777"],
    [charges |-> JNull,       hours |-> JNum(2),    mobile |-> "555"],
    [charges |-> JNum(50),    hours |-> JNull,      mobile |-> "555"],
    [charges |-> JNum(50),    hours |-> JNum(2),    mobile |-> ""],
    [charges |-> JNum(50),    hours |-> JNum(2),    mobile |-> NoMobile],
    [charges |-> JBadStr,     hours |-> JNum(2),    mobile |-> "555"] }

ValidPayloads == {p \in Payloads : p.mobile \in {"555", "777"} /\ p.charges.t \in {"num", "numstr"} /\ p.hours.t \in {"num", "numstr"}}

(* request.get_json() of create_task: the required keys are all there or *)
(* not; latitude and longitude in hundredths of a degree, or null.        *)
TaskBody(complete, lat, lon) ==
  [complete |-> complete, latitude |-> lat, longitude |-> lon]

TaskBodies ==
  {TaskBody(TRUE, 0, 0), TaskBody(FALSE, 0, 0), TaskBody(TRUE, NULL, 0)}

(* request.get_json() of create_rating: task_id, ratee_id and score. *)
RatingTaskIds == TaskIds \cup {NULL, 0}
RatingRatees == Users \cup {NULL}
ScoreVals == {JNull, JNum(0), JNum(3), JNum(6), JNumStr(3)}

(* The bodies sent: every score with well-formed ids, and each id missing  *)
(* or 0 with a well-formed score.                                          *)
RatingBodies ==
  {b \in [task_id : RatingTaskIds, ratee_id : RatingRatees, score : ScoreVals] :
     \/ b.task_id \in TaskIds /\ b.ratee_id \in Users
     \/ b.score = JNum(3) /\ (b.task_id \in TaskIds \/ b.ratee_id = 2)}

(* float(x) of a body value; FloatRaises(x) when float(x) raises. *)
FloatRaises(x) == x.t \in {"badstr", "null"}
Float(x) == x.v

(* `charges is None or hours is None or not mobile` *)
QuoteFieldsMissing(p) ==
  \/ p.charges.t = "null"
  \/ p.hours.t = "null"
  \/ p.mobile \in {NoMobile, ""}

(* ------------------------------ tables -------------------------------- *)
Max(S) == CHOOSE x \in S : \A y \in S : y <= x
Min(S) == CHOOSE x \in S : \A y \in S : x <= y

(* INTEGER PRIMARY KEY of SQLite: the new row gets max(id) + 1. *)
NextId(tbl) == IF DOMAIN tbl = {} THEN 1 ELSE Max(DOMAIN tbl) + 1

Remove(tbl, ids) == [i \in DOMAIN tbl \ ids |-> tbl[i]]

NewTask(u, b) ==
  [status |-> "open", poster_id |-> u, helper_id |-> NULL,
   charges |-> NULL, hours |-> NULL,
   latitude |-> b.latitude, longitude |-> b.longitude]

NewQuote(t, u, p) ==
  [task_id |-> t, helper_id |-> u, charges |-> Float(p.charges),
   hours |-> Float(p.hours), mobile |-> p.mobile, status |-> "pending"]

NewRating(t, u, ratee, score) ==
  [task_id |-> t, rater_id |-> u, ratee_id |-> ratee, score |-> score]

(* create_notification: the message is its kind, the task title left out. *)
NewNotification(u, kind) ==
  [user_id |-> u, message |-> kind, is_read |-> FALSE]

QuotesOfTask(qs, t) == {i \in DOMAIN qs : qs[i].task_id = t}

(* User(...) of register: the location columns are left null. *)
NewUser == [latitude |-> NULL, longitude |-> NULL]

(* ----------------------------- requests ------------------------------- *)
(* view: the response to the last query (a request that only reads). *)
NoView == [op |-> "none"]

Idle == [pc |-> "idle"]

(* last: the response to the last request that wrote to the tables; id is *)
(* the row it is about, sup the first quote the request deleted.          *)
Response(op, code, id) == [op |-> op, code |-> code, id |-> id, sup |-> NULL]

Respond(s, r) ==
  /\ reqs' = [reqs EXCEPT ![s] = Idle]
  /\ last' = r
  /\ UNCHANGED <<overlaps, users, view>>

(* A request that ends before it has written anything: the handler        *)
(* returns the status its ...Check operator gives and nothing changes.     *)
Fail(s) ==
  /\ reqs' = [reqs EXCEPT ![s] = Idle]
  /\ UNCHANGED <<db, last, overlaps, users, view>>

(* The request of slot s goes on to its commit with what it has loaded. *)
Await(s, r) ==
  /\ overlaps < MaxOverlaps
  /\ reqs' = [reqs EXCEPT ![s] = r]
  /\ overlaps' = overlaps + 1
  /\ UNCHANGED <<db, last, users, view>>

(* An attribute assignment of the ORM: the UPDATE sets the column only     *)
(* when the assigned value differs from the loaded one.                    *)
Assign(cur, loaded, new) == IF new # loaded THEN new ELSE cur

Init ==
  /\ tasks = <<>>
  /\ quotes = <<>>
  /\ ratings = <<>>
  /\ notifs = <<>>
  /\ reqs = [s \in Slots |-> Idle]
  /\ last = Response("none", 0, NULL)
  /\ overlaps = 0
  /\ users = [u \in Users |-> NewUser]
  /\ view = NoView

(* ---------------------------- create_task ----------------------------- *)
(* b.complete: every required key is in the body.  A null latitude or    *)
(* longitude fails the NOT NULL constraint at the commit.                 *)
CreateTask(s, u, b) ==
  /\ reqs[s].pc = "idle"
  /\ IF ~b.complete \/ b.latitude = NULL \/ b.longitude = NULL
       THEN Fail(s)
       ELSE /\ NextId(tasks) \in TaskIds
            /\ tasks' = tasks @@ (NextId(tasks) :> NewTask(u, b))
            /\ Respond(s, Response("create_task", 201, NextId(tasks)))
            /\ UNCHANGED <<quotes, ratings, notifs>>

(* ---------------------------- submit_quote ---------------------------- *)
(* Mutant: the task is looked up by id alone, whatever its status. *)
SubmitQuoteCheckAnyStatus(ts, t, p) ==
  IF QuoteFieldsMissing(p) THEN 400
  ELSE IF t \notin DOMAIN ts THEN 404
  ELSE IF FloatRaises(p.charges) \/ FloatRaises(p.hours) THEN 500
  ELSE 0

(* The status the handler returns before it writes; 0 when it goes on. *)
SubmitQuoteCheck(ts, t, p) ==
  IF QuoteFieldsMissing(p) THEN 400
  ELSE IF ~(t \in DOMAIN ts /\ ts[t].status = "open") THEN 404
  ELSE IF FloatRaises(p.charges) \/ FloatRaises(p.hours) THEN 500
  ELSE 0

(* Quote.query.filter_by(task_id, helper_id).first() *)
ExistingQuote(qs, t, u) ==
  LET S == {i \in DOMAIN qs : qs[i].task_id = t /\ qs[i].helper_id = u}
  IN  IF S = {} THEN NULL ELSE Min(S)

SubmitQuoteLoad(u, t, p) ==
  [pc |-> "commit", op |-> "submit_quote", user |-> u, task |-> t,
   payload |-> p, existing |-> ExistingQuote(quotes, t, u)]

(* Mutant: the superseded quote is not deleted. *)
SubmittedQuotesKeepOld(qs, r) ==
  qs @@ (NextId(qs) :> NewQuote(r.task, r.user, r.payload))

(* The flush inserts the new row, then deletes the superseded one. *)
SubmittedQuotes(qs, r) ==
  Remove(qs @@ (NextId(qs) :> NewQuote(r.task, r.user, r.payload)),
         {r.existing})

SubmitQuoteWrite(s, r) ==
  /\ NextId(quotes) <= MaxQuotes
  /\ quotes' = SubmittedQuotes(quotes, r)
  /\ Respond(s, [Response("submit_quote", 201, NextId(quotes))
                   EXCEPT !.sup = r.existing])
  /\ UNCHANGED <<tasks, ratings, notifs>>

SubmitQuote(s, u, t, p) ==
  /\ reqs[s].pc = "idle"
  /\ IF SubmitQuoteCheck(tasks, t, p) # 0
       THEN Fail(s)
       ELSE SubmitQuoteWrite(s, SubmitQuoteLoad(u, t, p))

SubmitQuoteRead(s, u, t, p) ==
  /\ reqs[s].pc = "idle"
  /\ SubmitQuoteCheck(tasks, t, p) = 0
  /\ Await(s, SubmitQuoteLoad(u, t, p))

SubmitQuoteCommit(s) ==
  /\ reqs[s].pc = "commit"
  /\ reqs[s].op = "submit_quote"
  /\ SubmitQuoteWrite(s, reqs[s])

(* ---------------------------- accept_quote ---------------------------- *)
AcceptQuoteCheck(ts, qs, u, q) ==
  IF q \notin DOMAIN qs THEN 404
  ELSE IF qs[q].task_id \notin DOMAIN ts THEN 500
  ELSE IF ts[qs[q].task_id].poster_id # u THEN 403
  ELSE 0

(* quote, quote.task and the other quotes of the task, as loaded. *)
AcceptQuoteLoad(u, q) ==
  LET t == quotes[q].task_id
      S == QuotesOfTask(quotes, t)
  IN  [pc |-> "commit", op |-> "accept_quote", user |-> u, quote |-> q,
       task |-> t, lq |-> [i \in S |-> quotes[i]], lt |-> tasks[t]]

OtherQuotes(r) == DOMAIN r.lq \ {r.quote}

(* The rows the flush updates: those whose loaded status changes. *)
DirtyQuotes(r) ==
  {i \in OtherQuotes(r) : r.lq[i].status # "declined"}
    \cup (IF r.lq[r.quote].status # "accepted" THEN {r.quote} ELSE {})

AcceptedQuotes(qs, r) ==
  [i \in DOMAIN qs |->
     IF i \in DirtyQuotes(r)
       THEN [qs[i] EXCEPT !.status =
               IF i = r.quote THEN "accepted" ELSE "declined"]
       ELSE qs[i]]

(* Mutant: charges and hours are copied crosswise. *)
AcceptedTaskSwapped(cur, r) ==
  LET q == r.lq[r.quote]
  IN  [cur EXCEPT
         !.helper_id = Assign(@, r.lt.helper_id, q.helper_id),
         !.charges = Assign(@, r.lt.charges, q.hours),
         !.hours = Assign(@, r.lt.hours, q.charges),
         !.status = Assign(@, r.lt.status, "accepted")]

(* Mutant: the status is left as it was loaded. *)
AcceptedTaskKeepStatus(cur, r) ==
  LET q == r.lq[r.quote]
  IN  [cur EXCEPT
         !.helper_id = Assign(@, r.lt.helper_id, q.helper_id),
         !.charges = Assign(@, r.lt.charges, q.charges),
         !.hours = Assign(@, r.lt.hours, q.hours)]

AcceptedTask(cur, r) ==
  LET q == r.lq[r.quote]
  IN  [cur EXCEPT
         !.helper_id = Assign(@, r.lt.helper_id, q.helper_id),
         !.charges = Assign(@, r.lt.charges, q.charges),
         !.hours = Assign(@, r.lt.hours, q.hours),
         !.status = Assign(@, r.lt.status, "accepted")]

TaskDirty(r) ==
  LET q == r.lq[r.quote]
  IN  \/ q.helper_id # r.lt.helper_id
      \/ q.charges # r.lt.charges
      \/ q.hours # r.lt.hours
      \/ r.lt.status # "accepted"

(* An UPDATE by primary key that matches no row raises StaleDataError. *)
AcceptStale(r) ==
  \/ \E i \in DirtyQuotes(r) : i \notin DOMAIN quotes
  \/ TaskDirty(r) /\ r.task \notin DOMAIN tasks

RECURSIVE SeqOf(_)
SeqOf(S) == IF S = {} THEN <<>> ELSE <<Min(S)>> \o SeqOf(S \ {Min(S)})

(* Mutant: the query misses the filter Quote.id != quote_id. *)
DeclineNotifsAll(r) ==
  LET ids == SeqOf(DOMAIN r.lq)
  IN  [k \in 1..Len(ids) |-> NewNotification(r.lq[ids[k]].helper_id, "declined")]

(* One create_notification per other quote, in the order of the query. *)
DeclineNotifs(r) ==
  LET ids == SeqOf(OtherQuotes(r))
  IN  [k \in 1..Len(ids) |-> NewNotification(r.lq[ids[k]].helper_id, "declined")]

(* Lines 316-331: up to the first db.session.commit(). *)
AcceptQuoteWrite(s, r) ==
  /\ Len(notifs) + Cardinality(OtherQuotes(r)) + 1 <= MaxNotifs
  /\ IF AcceptStale(r)
       THEN Fail(s)
       ELSE /\ quotes' = AcceptedQuotes(quotes, r)
            /\ tasks' = IF TaskDirty(r)
                          THEN [tasks EXCEPT ![r.task] = AcceptedTask(@, r)]
                          ELSE tasks
            /\ notifs' = notifs \o DeclineNotifs(r)
            /\ reqs' = [reqs EXCEPT ![s] =
                 [pc |-> "notify", op |-> "accept_quote", quote |-> r.quote,
                  task |-> r.task]]
            /\ UNCHANGED <<ratings, last, overlaps, users, view>>

AcceptQuote(s, u, q) ==
  /\ reqs[s].pc = "idle"
  /\ IF AcceptQuoteCheck(tasks, quotes, u, q) # 0
       THEN Fail(s)
       ELSE AcceptQuoteWrite(s, AcceptQuoteLoad(u, q))

AcceptQuoteRead(s, u, q) ==
  /\ reqs[s].pc = "idle"
  /\ AcceptQuoteCheck(tasks, quotes, u, q) = 0
  /\ Await(s, AcceptQuoteLoad(u, q))

AcceptQuoteCommit(s) ==
  /\ reqs[s].pc = "commit"
  /\ reqs[s].op = "accept_quote"
  /\ AcceptQuoteWrite(s, reqs[s])

(* Lines 332-342: quote and task were expired by the commit and are        *)
(* loaded again; a row that is gone raises ObjectDeletedError.             *)
AcceptQuoteNotify(s) ==
  /\ reqs[s].pc = "notify"
  /\ Len(notifs) < MaxNotifs
  /\ IF reqs[s].quote \notin DOMAIN quotes \/ reqs[s].task \notin DOMAIN tasks
       THEN /\ Respond(s, Response("accept_quote", 500, reqs[s].quote))
            /\ UNCHANGED db
       ELSE /\ notifs' = Append(notifs,
                 NewNotification(quotes[reqs[s].quote].helper_id, "assigned"))
            /\ Respond(s, Response("accept_quote", 200, reqs[s].quote))
            /\ UNCHANGED <<tasks, quotes, ratings>>

(* The second db.session.commit() raises: the handler ends with a 500 and  *)
(* only the open transaction, the notification, is rolled back.            *)
AcceptQuoteNotifyFails(s) ==
  /\ reqs[s].pc = "notify"
  /\ Respond(s, Response("accept_quote", 500, reqs[s].quote))
  /\ UNCHANGED db

(* --------------------------- complete_task ---------------------------- *)
CompleteTaskCheck(ts, u, t) ==
  IF t \notin DOMAIN ts THEN 404
  ELSE IF u \notin {ts[t].helper_id, ts[t].poster_id} THEN 403
  ELSE 0

CompleteTaskLoad(u, t) ==
  [pc |-> "commit", op |-> "complete_task", user |-> u, task |-> t,
   lt |-> tasks[t]]

(* Mutant: the completion also clears the helper. *)
CompletedTaskDropsHelper(cur, r) ==
  [cur EXCEPT !.status = Assign(@, r.lt.status, "completed"),
              !.helper_id = NULL]

CompletedTask(cur, r) ==
  [cur EXCEPT !.status = Assign(@, r.lt.status, "completed")]

CompleteTaskWrite(s, r) ==
  IF r.lt.status # "completed" /\ r.task \notin DOMAIN tasks
    THEN Fail(s)
    ELSE /\ tasks' = IF r.lt.status # "completed"
                       THEN [tasks EXCEPT ![r.task] = CompletedTask(@, r)]
                       ELSE tasks
         /\ Respond(s, Response("complete_task", 200, r.task))
         /\ UNCHANGED <<quotes, ratings, notifs>>

CompleteTask(s, u, t) ==
  /\ reqs[s].pc = "idle"
  /\ IF CompleteTaskCheck(tasks, u, t) # 0
       THEN Fail(s)
       ELSE CompleteTaskWrite(s, CompleteTaskLoad(u, t))

CompleteTaskRead(s, u, t) ==
  /\ reqs[s].pc = "idle"
  /\ CompleteTaskCheck(tasks, u, t) = 0
  /\ Await(s, CompleteTaskLoad(u, t))

CompleteTaskCommit(s) ==
  /\ reqs[s].pc = "commit"
  /\ reqs[s].op = "complete_task"
  /\ CompleteTaskWrite(s, reqs[s])

(* ---------------------------- delete_task ----------------------------- *)
DeleteTaskCheck(ts, u, t) ==
  IF ~(t \in DOMAIN ts /\ ts[t].poster_id = u) THEN 404
  ELSE IF ts[t].status # "open" THEN 400
  ELSE 0

DeleteTaskLoad(u, t) ==
  [pc |-> "commit", op |-> "delete_task", user |-> u, task |-> t]

(* Mutant: the quotes of the task are not deleted. *)
QuotesAfterDeleteNone(qs, t) == qs

(* Quote.query.filter_by(task_id=task_id).delete() *)
QuotesAfterDelete(qs, t) == Remove(qs, {i \in DOMAIN qs : qs[i].task_id = t})

(* Rating.query.filter_by(task_id=task_id).delete() *)
RatingsAfterDelete(rs, t) == Remove(rs, {i \in DOMAIN rs : rs[i].task_id = t})

DeleteTaskWrite(s, r) ==
  /\ quotes' = QuotesAfterDelete(quotes, r.task)
  /\ ratings' = RatingsAfterDelete(ratings, r.task)
  /\ tasks' = Remove(tasks, {r.task})
  /\ Respond(s, [Response("delete_task", 200, r.task)
                   EXCEPT !.sup = IF QuotesOfTask(quotes, r.task) = {} THEN NULL
                                  ELSE Min(QuotesOfTask(quotes, r.task))])
  /\ UNCHANGED notifs

DeleteTask(s, u, t) ==
  /\ reqs[s].pc = "idle"
  /\ IF DeleteTaskCheck(tasks, u, t) # 0
       THEN Fail(s)
       ELSE DeleteTaskWrite(s, DeleteTaskLoad(u, t))

DeleteTaskRead(s, u, t) ==
  /\ reqs[s].pc = "idle"
  /\ DeleteTaskCheck(tasks, u, t) = 0
  /\ Await(s, DeleteTaskLoad(u, t))

DeleteTaskCommit(s) ==
  /\ reqs[s].pc = "commit"
  /\ reqs[s].op = "delete_task"
  /\ DeleteTaskWrite(s, reqs[s])

(* ---------------------------- create_rating --------------------------- *)
(* `not x` of a body value that is an id: None and 0 are false. *)
FalsyId(x) == x \in {NULL, 0}

(* `not score`: None and the number 0 are false, a non-empty string true. *)
FalsyScore(x) == x.t = "null" \/ (x.t = "num" /\ x.v = 0)

(* Rating.query.filter_by(task_id, rater_id, ratee_id).first() *)
ExistingRating(rs, t, u, ratee) ==
  LET S == {i \in DOMAIN rs : /\ rs[i].task_id = t
                              /\ rs[i].rater_id = u
                              /\ rs[i].ratee_id = ratee}
  IN  IF S = {} THEN NULL ELSE Min(S)

(* The check that ends the handler before it writes, named by what its    *)
(* error message reports; "TypeError" when `1 <= score` raises on a       *)
(* string; "" when the handler goes on.                                   *)
CreateRatingError(ts, rs, u, t, ratee, score) ==
  IF FalsyId(t) \/ FalsyId(ratee) \/ FalsyScore(score) THEN "required"
  ELSE IF score.t # "num" THEN "TypeError"
  ELSE IF ~(1 <= score.v /\ score.v <= 5) THEN "score"
  ELSE IF ~(t \in DOMAIN ts /\ ts[t].status = "completed") THEN "task"
  ELSE IF u \notin {ts[t].poster_id, ts[t].helper_id} THEN "participant"
  ELSE IF ratee \notin {ts[t].poster_id, ts[t].helper_id} \/ ratee = u
    THEN "ratee"
  ELSE IF ExistingRating(rs, t, u, ratee) # NULL THEN "duplicate"
  ELSE ""

(* The status of the response; 0 when the handler goes on. *)
CreateRatingCheck(ts, rs, u, t, ratee, score) ==
  LET e == CreateRatingError(ts, rs, u, t, ratee, score)
  IN  IF e = "" THEN 0
      ELSE IF e = "TypeError" THEN 500
      ELSE IF e = "participant" THEN 403
      ELSE 400

CreateRatingLoad(u, t, ratee, score) ==
  [pc |-> "commit", op |-> "create_rating", user |-> u, task |-> t,
   ratee |-> ratee, score |-> score]

CreateRatingWrite(s, r) ==
  /\ NextId(ratings) <= MaxRatings
  /\ ratings' = ratings @@
       (NextId(ratings) :> NewRating(r.task, r.user, r.ratee, r.score.v))
  /\ Respond(s, Response("create_rating", 201, NextId(ratings)))
  /\ UNCHANGED <<tasks, quotes, notifs>>

CreateRating(s, u, t, ratee, score) ==
  /\ reqs[s].pc = "idle"
  /\ IF CreateRatingCheck(tasks, ratings, u, t, ratee, score) # 0
       THEN Fail(s)
       ELSE CreateRatingWrite(s, CreateRatingLoad(u, t, ratee, score))

CreateRatingRead(s, u, t, ratee, score) ==
  /\ reqs[s].pc = "idle"
  /\ CreateRatingCheck(tasks, ratings, u, t, ratee, score) = 0
  /\ Await(s, CreateRatingLoad(u, t, ratee, score))

CreateRatingCommit(s) ==
  /\ reqs[s].pc = "commit"
  /\ reqs[s].op = "create_rating"
  /\ CreateRatingWrite(s, reqs[s])

(* ------------------------ mark_notification_read ---------------------- *)
(* A notification's id is its place in notifs: rows are never deleted.    *)
MarkReadCheck(ns, u, n) ==
  IF ~(n \in DOMAIN ns /\ ns[n].user_id = u) THEN 404 ELSE 0

(* Mutant: the flag is flipped. *)
MarkedReadToggled(ns, n) == [ns EXCEPT ![n].is_read = ~@]

(* Mutant: every notification of the table is marked. *)
MarkedReadAll(ns, n) == [k \in DOMAIN ns |-> [ns[k] EXCEPT !.is_read = TRUE]]

(* notif.is_read = True *)
MarkedRead(ns, n) == [ns EXCEPT ![n].is_read = TRUE]

MarkRead(s, u, n) ==
  /\ reqs[s].pc = "idle"
  /\ IF MarkReadCheck(notifs, u, n) # 0
       THEN Fail(s)
       ELSE /\ notifs' = MarkedRead(notifs, n)
            /\ Respond(s, Response("mark_notification_read", 200, n))
            /\ UNCHANGED <<tasks, quotes, ratings>>

(* ----------------------------- get_profile ---------------------------- *)
(* Rating.query.filter_by(ratee_id=user_id).all() *)
RatingsReceived(rs, u) == {i \in DOMAIN rs : rs[i].ratee_id = u}

(* sum(r.score for r in ratings_received) *)
RECURSIVE SumScores(_, _)
SumScores(rs, S) ==
  IF S = {} THEN 0
  ELSE LET i == Min(S) IN rs[i].score + SumScores(rs, S \ {i})

(* Mutant: the mean is cut off after the first decimal. *)
RoundTenthsTruncated(total, n) == (10 * total) \div n

(* round(total / n, 1), in tenths.  Python rounds the double total / n to   *)
(* the nearest tenth and an exact tie to the even one; with fewer than 20   *)
(* ratings the only ties are the means x.25 and x.75, which are exact       *)
(* doubles.                                                                 *)
RoundTenths(total, n) ==
  LET q == (10 * total) \div n
      r == (10 * total) % n
  IN  IF 2 * r < n THEN q
      ELSE IF 2 * r > n THEN q + 1
      ELSE IF q % 2 = 0 THEN q ELSE q + 1

(* avg_rating, in tenths. *)
AverageRating(rs, u) ==
  LET S == RatingsReceived(rs, u)
  IN  IF S = {} THEN 0 ELSE RoundTenths(SumScores(rs, S), Cardinality(S))

CompletedCount(ts, col, u) ==
  Cardinality({t \in DOMAIN ts : ts[t][col] = u /\ ts[t].status = "completed"})

ProfileStats(code, u) ==
  [op |-> "get_profile", code |-> code, user |-> u,
   completed_tasks_as_helper |->
     IF code = 200 THEN CompletedCount(tasks, "helper_id", u) ELSE 0,
   completed_tasks_as_seeker |->
     IF code = 200 THEN CompletedCount(tasks, "poster_id", u) ELSE 0,
   total_ratings |->
     IF code = 200 THEN Cardinality(RatingsReceived(ratings, u)) ELSE 0,
   average_rating |-> IF code = 200 THEN AverageRating(ratings, u) ELSE 0]

(* The handler has no token check and no commit. *)
GetProfile(user_id) ==
  /\ view' = ProfileStats(IF user_id \in DOMAIN users THEN 200 ELSE 404,
                          user_id)
  /\ UNCHANGED <<db, reqs, last, overlaps, users>>

(* --------------------------- update_location -------------------------- *)
(* b.complete: both keys are in the body; a value may be null. *)
UpdateLocation(s, u, b) ==
  /\ reqs[s].pc = "idle"
  /\ IF ~b.complete \/ u \notin DOMAIN users
       THEN Fail(s)
       ELSE /\ users' = [users EXCEPT ![u] =
                 [latitude |-> b.latitude, longitude |-> b.longitude]]
            /\ last' = Response("update_location", 200, u)
            /\ UNCHANGED <<db, reqs, overlaps, view>>

(* ---------------------------- get_map_tasks ---------------------------- *)
(* request.args.get('radius', 5.0): absent (JNull), a string spelling a    *)
(* number of metres (the query gives kilometres), the string "nan", or a   *)
(* string that spells no number.                                           *)
JNaN == [t |-> "nan", v |-> 0]

(* float(...) of the argument, in metres; the default is 5.0 km. *)
Radius(arg) == IF arg.t = "null" THEN 5000 ELSE arg.v

(* radius < x and radius > x are both false of a NaN. *)
RadiusBelow(arg, m) == arg.t # "nan" /\ Radius(arg) < m
RadiusAbove(arg, m) == arg.t # "nan" /\ Radius(arg) > m

(* Mutant: the two ends of the range are excluded. *)
GetMapTasksCheckOpenRange(us, u, arg) ==
  IF u \notin DOMAIN us \/ us[u].latitude = NULL \/ us[u].longitude = NULL
    THEN 400
  ELSE IF arg.t = "badstr" THEN 400
  ELSE IF ~RadiusAbove(arg, 100) \/ ~RadiusBelow(arg, 50000) THEN 400
  ELSE 0

(* The status the handler returns before it queries; 0 when it goes on. *)
GetMapTasksCheck(us, u, arg) ==
  IF u \notin DOMAIN us \/ us[u].latitude = NULL \/ us[u].longitude = NULL
    THEN 400
  ELSE IF arg.t = "badstr" THEN 400
  ELSE IF RadiusBelow(arg, 100) \/ RadiusAbove(arg, 50000) THEN 400
  ELSE 0

(* R * pi / 180 / 100 with R = 6371.0 km: the millimetres of arc of one    *)
(* hundredth of a degree.                                                  *)
EarthArc == 1111949

(* haversine_distance, in millimetres, of two points of the equator        *)
(* (lat1 = lat2 = 0), where a = sin(dlon/2)**2 and c = |dlon|; the         *)
(* coordinates are in hundredths of a degree.                              *)
HaversineDistance(lat1, lon1, lat2, lon2) ==
  EarthArc * (IF lon2 >= lon1 THEN lon2 - lon1 ELSE lon1 - lon2)

(* dist <= radius, false of a NaN radius. *)
WithinRadius(dist, arg) == arg.t # "nan" /\ dist <= 1000 * Radius(arg)

(* Mutant: the query misses the filter status = 'open'. *)
NearbyTasksAnyStatus(ts, user, arg) ==
  {t \in DOMAIN ts :
     WithinRadius(HaversineDistance(user.latitude, user.longitude,
                                    ts[t].latitude, ts[t].longitude), arg)}

(* The ids of nearby_tasks. *)
NearbyTasks(ts, user, arg) ==
  {t \in {o \in DOMAIN ts : ts[o].status = "open"} :
     WithinRadius(HaversineDistance(user.latitude, user.longitude,
                                    ts[t].latitude, ts[t].longitude), arg)}

MapView(code, u, arg, ids) ==
  [op |-> "get_map_tasks", code |-> code, user |-> u, radius |-> arg,
   ids |-> ids]

(* The handler has no commit. *)
GetMapTasks(u, arg) ==
  /\ view' = IF GetMapTasksCheck(users, u, arg) # 0
               THEN MapView(GetMapTasksCheck(users, u, arg), u, arg, {})
               ELSE MapView(200, u, arg, NearbyTasks(tasks, users[u], arg))
  /\ UNCHANGED <<db, reqs, last, overlaps, users>>

(* --------------------------- specifications --------------------------- *)
(* One request at a time. *)
Next ==
  \/ \E u \in Posters, b \in TaskBodies : CreateTask(1, u, b)
  \/ \E u \in Helpers, t \in TaskIds, p \in Payloads : SubmitQuote(1, u, t, p)
  \/ \E u \in Users, q \in QuoteIds : AcceptQuote(1, u, q)
  \/ AcceptQuoteNotify(1)
  \/ AcceptQuoteNotifyFails(1)
  \/ \E u \in Users, t \in TaskIds : CompleteTask(1, u, t)
  \/ \E u \in Users, t \in TaskIds : DeleteTask(1, u, t)
  \/ \E u \in Users, b \in RatingBodies :
       CreateRating(1, u, b.task_id, b.ratee_id, b.score)

Spec == Init /\ [][Next]_vars

(* Two requests overlapping: the one of slot 2 has read and not yet       *)
(* committed while the one of slot 1 reads and commits.  The requests are *)
(* the well-formed ones, with one request body.                           *)
ConcPayloads == {p \in ValidPayloads : p.mobile = "555"}

SlotOne ==
  \/ \E u \in Posters : CreateTask(1, u, TaskBody(TRUE, 0, 0))
  \/ \E u \in Helpers, t \in TaskIds, p \in ConcPayloads : SubmitQuote(1, u, t, p)
  \/ \E u \in Users, q \in QuoteIds : AcceptQuote(1, u, q)
  \/ AcceptQuoteNotify(1)
  \/ AcceptQuoteNotifyFails(1)
  \/ \E u \in Users, t \in TaskIds : CompleteTask(1, u, t)
  \/ \E u \in Users, t \in TaskIds : DeleteTask(1, u, t)
  \/ \E u \in Users, t \in TaskIds, ratee \in Users :
       CreateRating(1, u, t, ratee, JNum(3))

SlotTwo ==
  \/ \E u \in Helpers, t \in TaskIds, p \in ConcPayloads : SubmitQuoteRead(2, u, t, p)
  \/ SubmitQuoteCommit(2)
  \/ \E u \in Users, q \in QuoteIds : AcceptQuoteRead(2, u, q)
  \/ AcceptQuoteCommit(2)
  \/ AcceptQuoteNotify(2)
  \/ AcceptQuoteNotifyFails(2)
  \/ \E u \in Users, t \in TaskIds : CompleteTaskRead(2, u, t)
  \/ CompleteTaskCommit(2)
  \/ \E u \in Users, t \in TaskIds : DeleteTaskRead(2, u, t)
  \/ DeleteTaskCommit(2)
  \/ \E u \in Users, t \in TaskIds, ratee \in Users :
       CreateRatingRead(2, u, t, ratee, JNum(3))
  \/ CreateRatingCommit(2)

NextConc == SlotOne \/ SlotTwo

(* The handlers that write notifications and those that write the rows    *)
(* they read, one request at a time, with well-formed requests.            *)
NextNotif ==
  \/ \E u \in Posters : CreateTask(1, u, TaskBody(TRUE, 0, 0))
  \/ \E u \in Helpers, t \in TaskIds, p \in ConcPayloads : SubmitQuote(1, u, t, p)
  \/ \E u \in Posters, q \in QuoteIds : AcceptQuote(1, u, q)
  \/ AcceptQuoteNotify(1)
  \/ AcceptQuoteNotifyFails(1)
  \/ \E u \in Posters, t \in TaskIds : DeleteTask(1, u, t)
  \/ \E u \in Users, n \in 1..MaxNotifs : MarkRead(1, u, n)
  \/ \E u \in Posters, t \in TaskIds : CompleteTask(1, u, t)

SpecNotif == Init /\ [][NextNotif]_vars

SpecConc == Init /\ [][NextConc]_vars

(* The profile query on a table of ratings: task i was posted by user 1,  *)
(* quoted by a helper, accepted, completed and rated by its poster.       *)
MaxStatRatings == 4
StatScores == {1, 2, 5}
UnknownUser == 4

StatRows ==
  UNION {[1..n -> [ratee : Helpers, score : StatScores]] :
           n \in 0..MaxStatRatings}

StatPayload == [charges |-> JNum(50), hours |-> JNum(2), mobile |-> "555"]

InitStats ==
  \E rows \in StatRows :
    /\ tasks = [i \in DOMAIN rows |->
                  [NewTask(1, TaskBody(TRUE, 0, 0)) EXCEPT
                     !.status = "completed", !.helper_id = rows[i].ratee,
                     !.charges = 50, !.hours = 2]]
    /\ quotes = [i \in DOMAIN rows |->
                   [NewQuote(i, rows[i].ratee, StatPayload) EXCEPT
                      !.status = "accepted"]]
    /\ notifs = [i \in DOMAIN rows |->
                   NewNotification(rows[i].ratee, "assigned")]
    /\ ratings = [i \in DOMAIN rows |->
                    NewRating(i, 1, rows[i].ratee, rows[i].score)]
    /\ reqs = [s \in Slots |-> Idle]
    /\ last = Response("none", 0, NULL)
    /\ overlaps = 0
    /\ users = [u \in Users |-> NewUser]
    /\ view = NoView

NextStats == \E u \in Users \cup {UnknownUser} : GetProfile(u)

SpecStats == InitStats /\ [][NextStats]_vars

(* The map query on a table of tasks along the equator: task i was        *)
(* posted by user 1 and is open, or was quoted by user 2 and accepted, or  *)
(* was then completed.  Longitude 9 is 10.0 km from longitude 0, and 45 is *)
(* 50.04 km.                                                               *)
MaxMapTasks == 2
MapLons == {0, 9, 45}
TaskStatuses == {"open", "accepted", "completed"}

MapRows ==
  UNION {[1..n -> [status : TaskStatuses, longitude : MapLons]] :
           n \in 0..MaxMapTasks}

LocationBodies ==
  {TaskBody(TRUE, 0, 0), TaskBody(TRUE, 0, 9), TaskBody(TRUE, NULL, 0),
   TaskBody(TRUE, 0, NULL), TaskBody(FALSE, 0, 0)}

RadiusArgs ==
  {JNull, JBadStr, JNaN, JNumStr(50), JNumStr(100), JNumStr(4000),
   JNumStr(15000), JNumStr(50000), JNumStr(60000)}

InitMap ==
  \E rows \in MapRows :
    LET taken == {i \in DOMAIN rows : rows[i].status # "open"}
    IN  /\ tasks = [i \in DOMAIN rows |->
                      IF i \in taken
                        THEN [NewTask(1, TaskBody(TRUE, 0, rows[i].longitude))
                                EXCEPT !.status = rows[i].status,
                                       !.helper_id = 2,
                                       !.charges = 50, !.hours = 2]
                        ELSE NewTask(1, TaskBody(TRUE, 0, rows[i].longitude))]
        /\ quotes = [i \in taken |->
                       [NewQuote(i, 2, StatPayload) EXCEPT
                          !.status = "accepted"]]
        /\ notifs = [k \in 1..Cardinality(taken) |->
                       NewNotification(2, "assigned")]
        /\ ratings = <<>>
        /\ reqs = [s \in Slots |-> Idle]
        /\ last = Response("none", 0, NULL)
        /\ overlaps = 0
        /\ users = [u \in Users |-> NewUser]
        /\ view = NoView

NextMap ==
  \/ \E b \in LocationBodies : UpdateLocation(1, 1, b)
  \/ \E u \in {1, 2}, arg \in RadiusArgs : GetMapTasks(u, arg)

SpecMap == InitMap /\ [][NextMap]_vars

(* ------------------------------ claims -------------------------------- *)
Accepted(qs, t) == {i \in QuotesOfTask(qs, t) : qs[i].status = "accepted"}

IsOpen(ts, t) == t \in DOMAIN ts /\ ts[t].status = "open"

(* The request of slot 1 has ended and no later request has written. *)
Answered(op, code) ==
  reqs[1].pc = "idle" /\ last.op = op /\ last.code = code

(* C1: after a successful AcceptQuote of quote q of task T, q is accepted, *)
(* every other quote of T is declined, q is the only accepted quote of T,  *)
(* T is accepted and T's helper_id, charges and hours are those of q.      *)
C1_AcceptQuoteResult ==
  Answered("accept_quote", 200) =>
    /\ last.id \in DOMAIN quotes
    /\ LET q == last.id
           t == quotes[q].task_id
       IN  /\ quotes[q].status = "accepted"
           /\ \A o \in QuotesOfTask(quotes, t) \ {q} :
                quotes[o].status = "declined"
           /\ Accepted(quotes, t) = {q}
           /\ t \in DOMAIN tasks
           /\ tasks[t].status = "accepted"
           /\ tasks[t].helper_id = quotes[q].helper_id
           /\ tasks[t].charges = quotes[q].charges
           /\ tasks[t].hours = quotes[q].hours

C1_Witness ==
  /\ Answered("accept_quote", 200)
  /\ last.id \in DOMAIN quotes
  /\ quotes[last.id].status = "accepted"
  /\ \E o \in DOMAIN quotes :
       /\ o # last.id
       /\ quotes[o].task_id = quotes[last.id].task_id
       /\ quotes[o].status = "declined"

(* C2: once a quote of task T is accepted, no other quote of T is accepted *)
(* afterward and T's helper_id, charges and hours never change again.      *)
C2_AcceptanceIsFinal ==
  [][\A t \in DOMAIN tasks :
       Accepted(quotes, t) # {} =>
         /\ t \in DOMAIN tasks'
         /\ Accepted(quotes', t) \subseteq Accepted(quotes, t)
         /\ tasks'[t].helper_id = tasks[t].helper_id
         /\ tasks'[t].charges = tasks[t].charges
         /\ tasks'[t].hours = tasks[t].hours]_vars

(* C3: of two AcceptQuote requests for different quotes of one open task   *)
(* that overlap, the one that commits after the other has accepted its     *)
(* quote (the task is no longer open) does not commit its acceptance.      *)
C3_ConcurrentAcceptLoserFails ==
  [][( /\ reqs[2].pc = "commit"
       /\ reqs[2].op = "accept_quote"
       /\ reqs[2].lt.status = "open"
       /\ reqs[2].task \in DOMAIN tasks
       /\ tasks[reqs[2].task].status # "open"
       /\ Accepted(quotes, reqs[2].task) # {}
       /\ reqs[2].quote \notin Accepted(quotes, reqs[2].task) )
     => reqs'[2].pc # "notify"]_vars

(* C4: in no persisted state is a quote accepted while the notification to *)
(* its helper is missing.                                                  *)
C4_AcceptedImpliesNotified ==
  \A q \in DOMAIN quotes :
    quotes[q].status = "accepted" =>
      \E k \in 1..Len(notifs) :
        /\ notifs[k].user_id = quotes[q].helper_id
        /\ notifs[k].message = "assigned"

(* C5: the first commit of AcceptQuote appends one unread notification per *)
(* other quote of the task, to that quote's helper; its second commit      *)
(* appends one unread notification to the accepted quote's helper; no      *)
(* other step appends any notification.                                   *)
C5_AcceptQuoteNotifications ==
  [][IF reqs[1].pc = "idle" /\ reqs'[1].pc = "notify"
       THEN LET q == reqs'[1].quote
                t == reqs'[1].task
                new == (Len(notifs) + 1)..Len(notifs')
            IN  /\ SubSeq(notifs', 1, Len(notifs)) = notifs
                /\ \A k \in new : /\ notifs'[k].is_read = FALSE
                                  /\ notifs'[k].message = "declined"
                /\ \A u \in Users :
                     Cardinality({k \in new : notifs'[k].user_id = u}) =
                     Cardinality({o \in QuotesOfTask(quotes, t) \ {q} :
                                    quotes[o].helper_id = u})
       ELSE IF reqs[1].pc = "notify" /\ reqs'[1].pc = "idle" /\ last'.code = 200
         THEN notifs' = Append(notifs,
                 [user_id |-> quotes[reqs[1].quote].helper_id,
                  message |-> "assigned", is_read |-> FALSE])
         ELSE notifs' = notifs]_vars

C5_Witness ==
  /\ Answered("accept_quote", 200)
  /\ Len(notifs) >= 2
  /\ notifs[Len(notifs)].message = "assigned"
  /\ notifs[Len(notifs) - 1].message = "declined"

(* C6: there is at most one quote per (task_id, helper_id), also when two  *)
(* SubmitQuote requests of one helper for one task overlap.                *)
C6_OneQuotePerTaskAndHelper ==
  \A i, j \in DOMAIN quotes :
    (quotes[i].task_id = quotes[j].task_id
       /\ quotes[i].helper_id = quotes[j].helper_id) => i = j

(* C7: a SubmitQuote by a helper who already has a quote on the open task  *)
(* removes that quote and leaves exactly one quote of that helper for the  *)
(* task, pending and with the charges, hours and mobile of this call; the  *)
(* quotes of the other helpers are unchanged.                              *)
C7_ResubmissionReplaces ==
  [][(quotes' # quotes /\ last'.op = "submit_quote") =>
       \A u \in Helpers, t \in TaskIds, p \in ValidPayloads :
         (SubmitQuote(1, u, t, p) /\ ExistingQuote(quotes, t, u) # NULL) =>
           LET mine == {i \in DOMAIN quotes' :
                          quotes'[i].task_id = t /\ quotes'[i].helper_id = u}
           IN  /\ ExistingQuote(quotes, t, u) \notin DOMAIN quotes'
               /\ Cardinality(mine) = 1
               /\ \A i \in mine :
                    /\ quotes'[i].charges = p.charges.v
                    /\ quotes'[i].hours = p.hours.v
                    /\ quotes'[i].mobile = p.mobile
                    /\ quotes'[i].status = "pending"
               /\ \A i \in DOMAIN quotes :
                    (quotes[i].task_id # t \/ quotes[i].helper_id # u) =>
                      (i \in DOMAIN quotes' /\ quotes'[i] = quotes[i])]_vars

C7_Witness ==
  /\ Answered("submit_quote", 201)
  /\ last.sup # NULL
  /\ last.sup \notin DOMAIN quotes
  /\ last.id \in DOMAIN quotes
  /\ \E o \in DOMAIN quotes : quotes[o].helper_id # quotes[last.id].helper_id

(* C8: SubmitQuote answers 400 when charges, hours or mobile is missing    *)
(* and 404 when the task is missing or not open; it writes only when the   *)
(* fields are present and the task exists with status open, and then only  *)
(* the quotes table.                                                       *)
C8_SubmitQuoteGuards ==
  /\ [](\A t \in TaskIds, p \in Payloads :
          /\ QuoteFieldsMissing(p) => SubmitQuoteCheck(tasks, t, p) = 400
          /\ (~QuoteFieldsMissing(p) /\ ~IsOpen(tasks, t)) =>
               SubmitQuoteCheck(tasks, t, p) = 404)
  /\ [][(last'.op = "submit_quote" /\ db' # db) =>
          \A u \in Helpers, t \in TaskIds, p \in Payloads :
            SubmitQuote(1, u, t, p) =>
              /\ ~QuoteFieldsMissing(p)
              /\ IsOpen(tasks, t)
              /\ tasks' = tasks]_vars

C8_Witness ==
  /\ Answered("submit_quote", 201)
  /\ last.id \in DOMAIN quotes
  /\ IsOpen(tasks, quotes[last.id].task_id)
  /\ \E p \in Payloads : SubmitQuoteCheck(tasks, quotes[last.id].task_id, p) = 400

(* C9: DeleteTask answers 404 when the task is missing or not the actor's  *)
(* and 400 when it is not open; it writes only when the task exists, is    *)
(* the actor's and is open, and then the task is gone and no quote and no  *)
(* rating references its id.                                              *)
C9_DeleteTaskGuardsAndCascade ==
  /\ [](\A u \in Users, t \in TaskIds :
          /\ ~(t \in DOMAIN tasks /\ tasks[t].poster_id = u) =>
               DeleteTaskCheck(tasks, u, t) = 404
          /\ (t \in DOMAIN tasks /\ tasks[t].poster_id = u
                /\ tasks[t].status # "open") =>
               DeleteTaskCheck(tasks, u, t) = 400)
  /\ [][(last'.op = "delete_task" /\ db' # db) =>
          \A u \in Users, t \in TaskIds :
            DeleteTask(1, u, t) =>
              /\ t \in DOMAIN tasks
              /\ tasks[t].poster_id = u
              /\ tasks[t].status = "open"
              /\ t \notin DOMAIN tasks'
              /\ \A i \in DOMAIN quotes' : quotes'[i].task_id # t
              /\ \A i \in DOMAIN ratings' : ratings'[i].task_id # t]_vars

C9_Witness ==
  /\ Answered("delete_task", 200)
  /\ last.id \notin DOMAIN tasks
  /\ last.sup # NULL
  /\ last.sup \notin DOMAIN quotes

(* C10: for every task, helper_id is null exactly when status is open. *)
C10_HelperNullIffOpen ==
  \A t \in DOMAIN tasks :
    (tasks[t].helper_id = NULL) <=> (tasks[t].status = "open")

(* C11: a task that CreateTask adds is open with helper_id, charges and    *)
(* hours null, and every open task has charges and hours null.             *)
C11_OpenTaskHasNoTerms ==
  /\ [](\A t \in DOMAIN tasks :
          tasks[t].status = "open" =>
            tasks[t].charges = NULL /\ tasks[t].hours = NULL)
  /\ [][\A t \in DOMAIN tasks' \ DOMAIN tasks :
          /\ tasks'[t].status = "open"
          /\ tasks'[t].helper_id = NULL
          /\ tasks'[t].charges = NULL
          /\ tasks'[t].hours = NULL]_vars

C11_Witness ==
  \E t \in DOMAIN tasks :
    /\ tasks[t].status = "accepted"
    /\ tasks[t].charges # NULL
    /\ tasks[t].hours # NULL
    /\ last.op = "accept_quote"

(* C12: CompleteTask answers 404 when the task is missing and 403 when the *)
(* actor is neither its poster nor its helper; otherwise, whatever the     *)
(* status was, it sets the status to completed and changes nothing else.   *)
C12_CompleteTaskEffect ==
  /\ [](\A u \in Users, t \in TaskIds :
          /\ t \notin DOMAIN tasks => CompleteTaskCheck(tasks, u, t) = 404
          /\ (t \in DOMAIN tasks
                /\ u \notin {tasks[t].poster_id, tasks[t].helper_id}) =>
               CompleteTaskCheck(tasks, u, t) = 403
          /\ (t \in DOMAIN tasks
                /\ u \in {tasks[t].poster_id, tasks[t].helper_id}) =>
               CompleteTaskCheck(tasks, u, t) = 0)
  /\ [][(last' # last /\ last'.op = "complete_task") =>
          \A u \in Users, t \in TaskIds :
            (CompleteTask(1, u, t) /\ CompleteTaskCheck(tasks, u, t) = 0) =>
              /\ tasks' = [tasks EXCEPT ![t].status = "completed"]
              /\ quotes' = quotes
              /\ ratings' = ratings
              /\ notifs' = notifs]_vars

C12_Witness ==
  /\ Answered("complete_task", 200)
  /\ last.id \in DOMAIN tasks
  /\ tasks[last.id].status = "completed"
  /\ tasks[last.id].helper_id # NULL
  /\ tasks[last.id].charges # NULL
  /\ Accepted(quotes, last.id) # {}

(* C13: SubmitRating reports the first condition that is violated, in the  *)
(* order: the three fields are present; score is in 1..5; the task exists  *)
(* and is completed; the actor is its poster or helper; the ratee is the   *)
(* other participant; no rating exists for (task, actor, ratee).  A rating *)
(* row is added only when all six hold.                                    *)
C13_RatingChecksInOrder ==
  /\ [](\A u \in Users, t \in RatingTaskIds, ratee \in RatingRatees,
           score \in ScoreVals :
          CreateRatingError(tasks, ratings, u, t, ratee, score) =
            IF t = NULL \/ ratee = NULL \/ score.t = "null" THEN "required"
            ELSE IF ~(score.t = "num" /\ score.v \in 1..5) THEN "score"
            ELSE IF ~(t \in DOMAIN tasks /\ tasks[t].status = "completed")
              THEN "task"
            ELSE IF u \notin {tasks[t].poster_id, tasks[t].helper_id}
              THEN "participant"
            ELSE IF ~(ratee \in {tasks[t].poster_id, tasks[t].helper_id}
                        /\ ratee # u) THEN "ratee"
            ELSE IF \E i \in DOMAIN ratings :
                      /\ ratings[i].task_id = t
                      /\ ratings[i].rater_id = u
                      /\ ratings[i].ratee_id = ratee THEN "duplicate"
            ELSE "")
  /\ [][\A i \in DOMAIN ratings' \ DOMAIN ratings :
          LET r == ratings'[i]
          IN  /\ r.score \in 1..5
              /\ r.task_id \in DOMAIN tasks
              /\ tasks[r.task_id].status = "completed"
              /\ {r.rater_id, r.ratee_id} =
                   {tasks[r.task_id].poster_id, tasks[r.task_id].helper_id}
              /\ r.rater_id # r.ratee_id
              /\ ~\E j \in DOMAIN ratings :
                    /\ ratings[j].task_id = r.task_id
                    /\ ratings[j].rater_id = r.rater_id
                    /\ ratings[j].ratee_id = r.ratee_id]_vars

(* C14: there is at most one rating per (task_id, rater_id, ratee_id),     *)
(* also when two SubmitRating requests with the same triple overlap.       *)
C14_OneRatingPerTriple ==
  \A i, j \in DOMAIN ratings :
    (/\ ratings[i].task_id = ratings[j].task_id
     /\ ratings[i].rater_id = ratings[j].rater_id
     /\ ratings[i].ratee_id = ratings[j].ratee_id) => i = j

(* C15: the profile of a user reports as total_ratings the number of       *)
(* ratings whose ratee is the user, and as average_rating a tenth that is  *)
(* nearest to the mean of their scores; the average is 0 exactly when the  *)
(* user has received no rating.                                            *)
C15_ProfileStats ==
  (view.op = "get_profile" /\ view.code = 200) =>
    LET S == {i \in DOMAIN ratings : ratings[i].ratee_id = view.user}
        n == Cardinality(S)
        count(v) == Cardinality({i \in S : ratings[i].score = v})
        total == count(1) + 2 * count(2) + 3 * count(3) + 4 * count(4)
                   + 5 * count(5)
        off == view.average_rating * n - 10 * total
    IN  /\ view.total_ratings = n
        /\ 2 * off <= n
        /\ -2 * off <= n
        /\ (view.average_rating = 0) <=> (n = 0)

C15_Witness ==
  /\ view.op = "get_profile"
  /\ view.code = 200
  /\ view.total_ratings = 3
  /\ view.average_rating = 27
  /\ Cardinality(DOMAIN ratings) = 4

(* C16: NearbyTasks answers 400 when the user's stored latitude or         *)
(* longitude is unset and when the radius is below 0.1 km or above 50 km;  *)
(* with a location set it accepts every radius from 0.1 km to 50 km, both  *)
(* included; it changes no stored state.                                   *)
C16_NearbyTasksGuards ==
  [][\A u \in {1, 2}, arg \in RadiusArgs :
       (view' # view /\ GetMapTasks(u, arg)) =>
         LET unset == users[u].latitude = NULL \/ users[u].longitude = NULL
             number == arg.t \in {"null", "numstr"}
         IN  /\ unset => view'.code = 400
             /\ (number /\ (Radius(arg) < 100 \/ Radius(arg) > 50000)) =>
                  view'.code = 400
             /\ (~unset /\ number
                   /\ 100 <= Radius(arg) /\ Radius(arg) <= 50000) =>
                  view'.code = 200
             /\ db' = db
             /\ users' = users]_vars

C16_Witness ==
  /\ view.op = "get_map_tasks"
  /\ view.code = 200
  /\ view.radius = JNumStr(100)
  /\ view.ids # {}

(* C17: a successful NearbyTasks returns no accepted or completed task, no *)
(* task farther from the user's stored location than the radius, and      *)
(* every open task at a distance of at most the radius, one at distance 0  *)
(* included.                                                               *)
C17_NearbyTasksResult ==
  [][\A u \in {1, 2}, arg \in RadiusArgs :
       (view' # view /\ GetMapTasks(u, arg)
          /\ view'.code = 200 /\ arg.t # "nan") =>
         LET far(t) == IF tasks[t].longitude >= users[u].longitude
                         THEN tasks[t].longitude - users[u].longitude
                         ELSE users[u].longitude - tasks[t].longitude
             near(t) == EarthArc * far(t) <= 1000 * Radius(arg)
         IN  /\ view'.ids \subseteq DOMAIN tasks
             /\ \A t \in view'.ids : tasks[t].status = "open" /\ near(t)
             /\ \A t \in DOMAIN tasks :
                  (tasks[t].status = "open" /\ near(t)) => t \in view'.ids]_vars

C17_Witness ==
  /\ view.op = "get_map_tasks"
  /\ view.code = 200
  /\ view.radius = JNumStr(4000)
  /\ users[view.user].longitude = 0
  /\ view.ids = {1}
  /\ tasks[1].longitude = 0
  /\ 2 \in DOMAIN tasks
  /\ tasks[2].status = "open"
  /\ tasks[2].longitude = 9

(* C18: MarkRead answers 404 and changes nothing when no notification with *)
(* that id belongs to the user; otherwise it sets is_read on that one      *)
(* notification and changes no other notification and no task, quote or    *)
(* rating.                                                                 *)
C18_MarkReadEffect ==
  /\ [](\A u \in Users, n \in 1..MaxNotifs :
          ~(n \in 1..Len(notifs) /\ notifs[n].user_id = u) =>
             MarkReadCheck(notifs, u, n) = 404)
  /\ [][(last' # last /\ last'.op = "mark_notification_read") =>
          \A u \in Users, n \in 1..MaxNotifs :
            (MarkRead(1, u, n) /\ MarkReadCheck(notifs, u, n) = 0) =>
              /\ n \in 1..Len(notifs)
              /\ notifs[n].user_id = u
              /\ Len(notifs') = Len(notifs)
              /\ notifs'[n] = [notifs[n] EXCEPT !.is_read = TRUE]
              /\ \A k \in 1..Len(notifs) : k # n => notifs'[k] = notifs[k]
              /\ tasks' = tasks
              /\ quotes' = quotes
              /\ ratings' = ratings]_vars

C18_Witness ==
  /\ Answered("mark_notification_read", 200)
  /\ last.id \in 1..Len(notifs)
  /\ notifs[last.id].is_read
  /\ \E k \in 1..Len(notifs) :
       /\ k # last.id
       /\ ~notifs[k].is_read
       /\ notifs[k].user_id = notifs[last.id].user_id

(* C19: no step deletes a notification or changes a notification's user_id *)
(* or message, and is_read never goes from true back to false.             *)
C19_NotificationsAppendOnly ==
  [][/\ Len(notifs') >= Len(notifs)
     /\ \A k \in 1..Len(notifs) :
          /\ notifs'[k].user_id = notifs[k].user_id
          /\ notifs'[k].message = notifs[k].message
          /\ notifs[k].is_read => notifs'[k].is_read]_vars

C19_Witness ==
  /\ Len(notifs) >= 3
  /\ notifs[1].is_read
  /\ ~notifs[2].is_read
  /\ notifs[3].is_read
  /\ last.op = "accept_quote"

(* C20: every stored quote has charges >= 0 and hours >= 0, and no task    *)
(* has negative charges or hours.                                          *)
C20_NoNegativeTerms ==
  /\ \A q \in DOMAIN quotes : quotes[q].charges >= 0 /\ quotes[q].hours >= 0
  /\ \A t \in DOMAIN tasks :
       /\ tasks[t].charges # NULL => tasks[t].charges >= 0
       /\ tasks[t].hours # NULL => tasks[t].hours >= 0

(* C21: no task's status returns to open, and a completed task stays       *)
(* completed.                                                              *)
C21_StatusMovesForward ==
  [][\A t \in DOMAIN tasks :
       /\ tasks[t].status # "open" =>
            (t \in DOMAIN tasks' /\ tasks'[t].status # "open")
       /\ tasks[t].status = "completed" =>
            (t \in DOMAIN tasks' /\ tasks'[t].status = "completed")]_vars

(* C22: a task has a helper exactly when exactly one of its quotes is      *)
(* accepted, and then its helper_id, charges and hours are that quote's.   *)
C22_HelperIffOneAcceptedQuote ==
  \A t \in DOMAIN tasks :
    /\ (tasks[t].helper_id # NULL) <=> (Cardinality(Accepted(quotes, t)) = 1)
    /\ \A q \in Accepted(quotes, t) :
         Cardinality(Accepted(quotes, t)) = 1 =>
           /\ tasks[t].helper_id = quotes[q].helper_id
           /\ tasks[t].charges = quotes[q].charges
           /\ tasks[t].hours = quotes[q].hours

(* C23: every quote references a task that exists, also when a SubmitQuote *)
(* and a DeleteTask for the same task overlap.                             *)
C23_QuoteTaskExists ==
  \A q \in DOMAIN quotes : quotes[q].task_id \in DOMAIN tasks

(* C24: every quote of an open task is pending, and every quote that a     *)
(* step removes is pending.                                                *)
C24_OnlyPendingQuotesDeleted ==
  /\ [](\A q \in DOMAIN quotes :
          IsOpen(tasks, quotes[q].task_id) => quotes[q].status = "pending")
  /\ [][\A q \in DOMAIN quotes \ DOMAIN quotes' :
          quotes[q].status = "pending"]_vars

====
